---- MODULE Spec2Model ----
(***************************************************************************)
(* A model of crypto.py: the resource cache (get_resources), the           *)
(* validators, the settings file, the config and gains subcommands and the *)
(* watch loop of the price subcommand.                                     *)
(*                                                                         *)
(* Files are modelled by what open()/json.load()/json.dump() observe:      *)
(*   state "absent" : open(path) raises FileNotFoundError                  *)
(*   state "empty"  : the file exists with no bytes (open(path,'w') ran    *)
(*                    and nothing was dumped); json.load raises            *)
(*                    JSONDecodeError                                      *)
(*   state "json"   : the file holds the JSON document doc                 *)
(***************************************************************************)
EXTENDS Integers, Sequences, FiniteSets, TLC

VARIABLES
  config,      \* the file ~/.crypto/defaults.json
  cache,       \* cache[kind]: the file ~/.crypto/<kind>.json
  obtained,    \* obtained[kind]: the list the API returned at the last population
  prev, cur,   \* prev[kind], cur[kind]: the last two get_resources(kind) calls
  last,        \* the record of the running CLI invocation
  v,           \* the record of the last direct call of a validator
  g,           \* the record of the last run of the gains body
  pc, watch, interval, stop, num_loops, fetches, sleeps, printed
               \* the get_price handler: position, options and counters

vars == <<config, cache, obtained, prev, cur, last, v, g,
          pc, watch, interval, stop, num_loops, fetches, sleeps, printed>>

cacheVars == <<obtained, prev, cur>>
watchVars == <<pc, watch, interval, stop, num_loops, fetches, sleeps, printed>>

----------------------------------------------------------------------------
(* Bounds *)

MaxCoins == 2        \* coins the API knows; also the longest coin list
MaxCurrencies == 2   \* currencies the API knows; also the longest currency list
MaxDay == 2          \* calendar days run from 0 to MaxDay
TicksPerDay == 2     \* instants of a day a datetime can tell apart
MaxPrice == 2        \* prices run from 0 to MaxPrice
MaxInterval == 61    \* --interval runs from -1 to MaxInterval seconds
MaxStop == 2         \* --stop runs from -1 to MaxStop minutes

None == "<None>"     \* Python's None for an option that was not given

----------------------------------------------------------------------------
(* Data *)

Kinds == {"coins", "currencies"}

\* Coin records as the API lists them.  The second coin's id is the first
\* coin's symbol and its name is the first coin's id.
AllCoins == << [id |-> "bitcoin",  symbol |-> "btc",  name |-> "Bitcoin"],
               [id |-> "btc",      symbol |-> "wbtc", name |-> "bitcoin"],
               [id |-> "ethereum", symbol |-> "eth",  name |-> "Ethereum"] >>

\* Currency codes; Rank gives their str order ("eur" < "gbp" < "usd").
AllCurrencies == << "eur", "usd", "gbp" >>

Rank == [c \in {"eur", "gbp", "usd"} |->
           IF c = "eur" THEN 1 ELSE IF c = "gbp" THEN 2 ELSE 3]

Min(a, b) == IF a <= b THEN a ELSE b

Coins == {AllCoins[i] : i \in 1..Min(MaxCoins, Len(AllCoins))}
Currencies == {AllCurrencies[i] : i \in 1..Min(MaxCurrencies, Len(AllCurrencies))}

Range(s) == {s[i] : i \in DOMAIN s}

\* The lists without repetition over S, of every length.
Lists(S) ==
  UNION {{s \in [1..n -> S] : \A i, j \in 1..n : i # j => s[i] # s[j]}
         : n \in 0..Cardinality(S)}

\* What a list endpoint of the API answers: a list, or the call raises.
ApiLists(kind) == IF kind = "coins" THEN Lists(Coins) ELSE Lists(Currencies)
Answer(l) == [ok |-> TRUE, list |-> l]
Raises == [ok |-> FALSE, list |-> <<>>]
ApiAnswers(kind) == {Answer(l) : l \in ApiLists(kind)} \cup {Raises}

----------------------------------------------------------------------------
(* Files *)

AbsentFile == [state |-> "absent", doc |-> <<>>]
EmptyFile == [state |-> "empty", doc |-> <<>>]
JsonFile(d) == [state |-> "json", doc |-> d]

----------------------------------------------------------------------------
(* sorted(): str elements compare; dict elements do not, so a list of two  *)
(* or more coin records raises TypeError.                                  *)

RECURSIVE Insert(_, _)
Insert(x, s) ==
  IF s = <<>> THEN <<x>>
  ELSE IF Rank[x] < Rank[Head(s)] THEN <<x>> \o s
  ELSE <<Head(s)>> \o Insert(x, Tail(s))

RECURSIVE SortStr(_)
SortStr(s) == IF s = <<>> THEN <<>> ELSE Insert(Head(s), SortStr(Tail(s)))

sorted(kind, l) ==
  IF kind = "currencies" THEN [ok |-> TRUE, list |-> SortStr(l)]
  ELSE IF Len(l) <= 1 THEN [ok |-> TRUE, list |-> l]
  ELSE [ok |-> FALSE, list |-> <<>>]

IsSorted(s) == \A i \in 1..(Len(s) - 1) : Rank[s[i]] < Rank[s[i + 1]]

----------------------------------------------------------------------------
(* get_resources(resource), for resource in {coins, currencies}.           *)
(* c is the state of the cache files, api the answer the list endpoint     *)
(* gives if it is called.  The result carries the files afterwards         *)
(* (cache), the number of API calls made (net), whether the API call       *)
(* raised (fault) and whether the file was populated (populated).          *)

get_resources(c, kind, api) ==
  LET file == c[kind]
      s == sorted(kind, api.list)
  IN  IF file.state = "json"
        THEN [status |-> "ok", ret |-> file.doc, cache |-> c, net |-> 0,
              fault |-> FALSE, populated |-> FALSE]
      ELSE IF file.state = "empty"
        THEN [status |-> "JSONDecodeError", ret |-> <<>>, cache |-> c, net |-> 0,
              fault |-> FALSE, populated |-> FALSE]
      \* FileNotFoundError: open(cache_file, 'w') creates the file empty
      ELSE IF ~api.ok
        THEN [status |-> "APIError", ret |-> <<>>,
              cache |-> [c EXCEPT ![kind] = EmptyFile], net |-> 1,
              fault |-> TRUE, populated |-> FALSE]
      ELSE IF ~s.ok
        THEN [status |-> "TypeError", ret |-> <<>>,
              cache |-> [c EXCEPT ![kind] = EmptyFile], net |-> 1,
              fault |-> FALSE, populated |-> FALSE]
      ELSE [status |-> "ok", ret |-> api.list,
            cache |-> [c EXCEPT ![kind] = JsonFile(s.list)], net |-> 1,
            fault |-> FALSE, populated |-> TRUE]

\* The answers worth drawing: the endpoint is called only on a cache miss.
AnswersFor(c, kind) ==
  IF c[kind].state = "absent" THEN ApiAnswers(kind) ELSE {Raises}

----------------------------------------------------------------------------
(* Values of the variables before anything ran *)

\* A mapping of the settings file holds the keys coin and currency; Missing
\* marks a key the mapping does not have.
Missing == "<missing>"
Mapping(coin, currency) == [coin |-> coin, currency |-> currency]
EmptyMapping == Mapping(Missing, Missing)

NotRun == [status |-> "notrun", ret |-> None, seen |-> <<>>, fault |-> FALSE]

NoInvocation ==
  [cmd |-> "none", coinOpt |-> None, curOpt |-> None, before |-> AbsentFile,
   cacheBefore |-> [k \in {"coins", "currencies"} |-> AbsentFile],
   settings |-> EmptyMapping, stored |-> FALSE, coin |-> None, currency |-> None,
   coinRun |-> NotRun, curRun |-> NotRun, bodyRan |-> FALSE, outcome |-> "none",
   currency_default |-> None, coin_default |-> None]

NoValidation == [of |-> "none", value |-> None, status |-> "none", ret |-> None]

NoGains ==
  [outcome |-> "none", start_date |-> 0, end_date |-> 0, today |-> 0, calls |-> 0,
   start_price |-> 0, end_price |-> 0, percent_change |-> [num |-> 0, den |-> 1],
   word |-> None]

IdleWatch ==
  /\ pc = "idle" /\ watch = FALSE /\ interval = 0 /\ stop = <<>>
  /\ num_loops = 0 /\ fetches = 0 /\ sleeps = 0 /\ printed = 0

----------------------------------------------------------------------------
(* The resource cache on its own: successive get_resources calls.          *)

NoCall == [status |-> "none", ret |-> <<>>, net |-> 0, fault |-> FALSE]
CallOf(r) == [status |-> r.status, ret |-> r.ret, net |-> r.net, fault |-> r.fault]

CacheFiles(kind) ==
  {AbsentFile} \cup
  {JsonFile(l) : l \in {x \in ApiLists(kind) : kind = "coins" \/ IsSorted(x)}}


InitCache ==
  /\ \E fc \in CacheFiles("coins"), fu \in CacheFiles("currencies") :
       cache = [k \in Kinds |-> IF k = "coins" THEN fc ELSE fu]
  /\ obtained = [k \in Kinds |-> cache[k].doc]
  /\ prev = [k \in Kinds |-> NoCall]
  /\ cur = [k \in Kinds |-> NoCall]
  /\ config = AbsentFile
  /\ last = NoInvocation
  /\ v = NoValidation
  /\ g = NoGains
  /\ IdleWatch

\* One call get_resources(kind).
GetResources(kind) ==
  \E api \in AnswersFor(cache, kind) :
    LET r == get_resources(cache, kind, api)
    IN  /\ cache' = r.cache
        /\ obtained' = IF r.net = 1 /\ api.ok
                         THEN [obtained EXCEPT ![kind] = api.list]
                         ELSE obtained
        /\ prev' = [prev EXCEPT ![kind] = cur[kind]]
        /\ cur' = [cur EXCEPT ![kind] = CallOf(r)]
        /\ UNCHANGED <<config, last, v, g, watchVars>>

\* The user deletes a cache file.
DeleteCache(kind) ==
  /\ cache[kind].state # "absent"
  /\ cache' = [cache EXCEPT ![kind] = AbsentFile]
  /\ prev' = [prev EXCEPT ![kind] = NoCall]
  /\ cur' = [cur EXCEPT ![kind] = NoCall]
  /\ UNCHANGED <<obtained, config, last, v, g, watchVars>>

NextCache ==
  \/ \E kind \in Kinds : GetResources(kind)
  \/ \E kind \in Kinds : DeleteCache(kind)

SpecCache == InitCache /\ [][NextCache]_vars

----------------------------------------------------------------------------
(* C1: two successive get_resources(kind) calls with no deletion between   *)
(* them, the API answering with a list whenever it is called, both succeed *)
(* and return identical results, and the second makes no API call.         *)
C1_TwoCallsAgree ==
  \A k \in Kinds :
    (prev[k].status # "none" /\ cur[k].status # "none"
       /\ ~prev[k].fault /\ ~cur[k].fault)
    => /\ prev[k].status = "ok"
       /\ cur[k].status = "ok"
       /\ prev[k].ret = cur[k].ret
       /\ cur[k].net = 0

(* C10: every cache file that exists holds the complete list the API gave  *)
(* at its last population (so a failed population leaves no file behind).  *)
C10_ExistingCacheComplete ==
  \A k \in Kinds :
    cache[k].state # "absent"
    => /\ cache[k].state = "json"
       /\ Len(cache[k].doc) = Len(obtained[k])
       /\ Range(cache[k].doc) = Range(obtained[k])

----------------------------------------------------------------------------
(* The settings file *)

\* Lines 14-22: load the settings; create the file as {} if it is absent.
load_settings(cfg) ==
  IF cfg.state = "absent"
    THEN [settings |-> EmptyMapping, config |-> JsonFile(EmptyMapping)]
    ELSE [settings |-> cfg.doc, config |-> cfg]

----------------------------------------------------------------------------
(* Validation callbacks *)

Matches(coin, value) ==
  value = coin.id \/ value = coin.name \/ value = coin.symbol

\* A loop that keeps the last matching coin instead of returning at the first.
LastMatch(all_coins, value) ==
  IF \E i \in 1..Len(all_coins) : Matches(all_coins[i], value)
    THEN CHOOSE i \in 1..Len(all_coins) :
           /\ Matches(all_coins[i], value)
           /\ \A j \in (i + 1)..Len(all_coins) : ~Matches(all_coins[j], value)
    ELSE 0

\* The index of the coin the loop of validate_coin returns at, 0 if it
\* runs to the end.
FirstMatch(all_coins, value) ==
  IF \E i \in 1..Len(all_coins) : Matches(all_coins[i], value)
    THEN CHOOSE i \in 1..Len(all_coins) :
           /\ Matches(all_coins[i], value)
           /\ \A j \in 1..(i - 1) : ~Matches(all_coins[j], value)
    ELSE 0

validate_coin(c, value, api) ==
  LET r == get_resources(c, "coins", api)
      i == FirstMatch(r.ret, value)
  IN  IF r.status # "ok"
        THEN [status |-> r.status, ret |-> None, cache |-> r.cache,
              seen |-> <<>>, fault |-> r.fault]
      ELSE IF i = 0
        THEN [status |-> "BadParameter", ret |-> None, cache |-> r.cache,
              seen |-> r.ret, fault |-> r.fault]
      ELSE [status |-> "ok", ret |-> r.ret[i].id, cache |-> r.cache,
            seen |-> r.ret, fault |-> r.fault]

validate_currency(c, value, api) ==
  LET r == get_resources(c, "currencies", api)
  IN  IF r.status # "ok"
        THEN [status |-> r.status, ret |-> None, cache |-> r.cache,
              seen |-> <<>>, fault |-> r.fault]
      ELSE IF \E i \in 1..Len(r.ret) : value = r.ret[i]
        THEN [status |-> "ok", ret |-> value, cache |-> r.cache,
              seen |-> r.ret, fault |-> r.fault]
      ELSE [status |-> "BadParameter", ret |-> None, cache |-> r.cache,
            seen |-> r.ret, fault |-> r.fault]

----------------------------------------------------------------------------
(* The group callback main and what runs before it: the module body loads  *)
(* the settings, the decorators read settings['coin'] and                  *)
(* settings['currency'] as the options' defaults, and click runs the       *)
(* callbacks of the two options (an option given on the command line       *)
(* before one that was not; two given ones in command-line order; two      *)
(* defaulted ones in declaration order, coin first).                       *)

RunOf(r) == [status |-> r.status, ret |-> r.ret, seen |-> r.seen, fault |-> r.fault]

CurrencyFirst(coinOpt, curOpt, curFirst) ==
  curOpt # None /\ (coinOpt = None \/ curFirst)

main(cfg, c, coinOpt, curOpt, curFirst, apiCoins, apiCurs) ==
  LET ld == load_settings(cfg)
      settings == ld.settings
      coinVal == IF coinOpt = None THEN settings.coin ELSE coinOpt
      curVal == IF curOpt = None THEN settings.currency ELSE curOpt
      \* coin callback first
      a1 == validate_coin(c, coinVal, apiCoins)
      a2 == validate_currency(a1.cache, curVal, apiCurs)
      \* currency callback first
      b1 == validate_currency(c, curVal, apiCurs)
      b2 == validate_coin(b1.cache, coinVal, apiCoins)
      curf == CurrencyFirst(coinOpt, curOpt, curFirst)
      first == IF curf THEN b1 ELSE a1
      second == IF curf THEN b2 ELSE a2
      base == [config |-> ld.config, settings |-> settings]
  IN  IF settings.coin = Missing \/ settings.currency = Missing
        THEN [outcome |-> "KeyError", stored |-> FALSE, coin |-> None,
              currency |-> None, cache |-> c, config |-> ld.config,
              settings |-> settings, coinRun |-> NotRun, curRun |-> NotRun]
      ELSE IF first.status # "ok"
        THEN [outcome |-> first.status, stored |-> FALSE, coin |-> None,
              currency |-> None, cache |-> first.cache, config |-> ld.config,
              settings |-> settings,
              coinRun |-> IF curf THEN NotRun ELSE RunOf(a1),
              curRun |-> IF curf THEN RunOf(b1) ELSE NotRun]
      ELSE IF second.status # "ok"
        THEN [outcome |-> second.status, stored |-> FALSE, coin |-> None,
              currency |-> None, cache |-> second.cache, config |-> ld.config,
              settings |-> settings,
              coinRun |-> IF curf THEN RunOf(b2) ELSE RunOf(a1),
              curRun |-> IF curf THEN RunOf(b1) ELSE RunOf(a2)]
      \* lines 70-71: ctx.obj['coin'] = coin; ctx.obj['currency'] = currency
      ELSE [outcome |-> "ok", stored |-> TRUE,
            coin |-> IF curf THEN b2.ret ELSE a1.ret,
            currency |-> IF curf THEN b1.ret ELSE a2.ret,
            cache |-> second.cache, config |-> ld.config,
            settings |-> settings,
            coinRun |-> IF curf THEN RunOf(b2) ELSE RunOf(a1),
            curRun |-> IF curf THEN RunOf(b1) ELSE RunOf(a2)]

----------------------------------------------------------------------------
(* The config subcommand (lines 147-178).  settings is the module-level    *)
(* mapping, cfg the settings file, c the cache files.                      *)

SetCurrency(m, x) == [m EXCEPT !.currency = x]
SetCoin(m, x) == [m EXCEPT !.coin = x]

\* Lines 165-175: the coin stored for --coin-default, by the loop's break.
config_coin(all_coins, coin_default) ==
  LET i == CHOOSE i \in 0..Len(all_coins) :
             /\ i # 0 => Matches(all_coins[i], coin_default)
             /\ \A j \in 1..(IF i = 0 THEN Len(all_coins) ELSE i - 1) :
                  ~Matches(all_coins[j], coin_default)
  IN  IF i = 0 THEN [found |-> FALSE, id |-> None]
      ELSE [found |-> TRUE, id |-> all_coins[i].id]

\* A config that persists each default as soon as it is set.
config_writes_early(settings, cfg, c, currency_default, coin_default, apiCoins, apiCurs) ==
  LET curs == get_resources(c, "currencies", apiCurs)
      c1 == IF currency_default = None THEN c ELSE curs.cache
      s1 == IF currency_default = None THEN settings
            ELSE SetCurrency(settings, currency_default)
      f1 == IF currency_default = None THEN cfg ELSE JsonFile(s1)
      coins == get_resources(c1, "coins", apiCoins)
      m == config_coin(coins.ret, coin_default)
      c2 == IF coin_default = None THEN c1 ELSE coins.cache
      s2 == IF coin_default = None THEN s1 ELSE SetCoin(s1, m.id)
  IN  IF currency_default # None /\ curs.status # "ok"
        THEN [outcome |-> curs.status, config |-> cfg, cache |-> curs.cache]
      ELSE IF currency_default # None
              /\ ~(\E i \in 1..Len(curs.ret) : curs.ret[i] = currency_default)
        THEN [outcome |-> "BadParameter", config |-> cfg, cache |-> curs.cache]
      ELSE IF coin_default # None /\ coins.status # "ok"
        THEN [outcome |-> coins.status, config |-> f1, cache |-> coins.cache]
      ELSE IF coin_default # None /\ ~m.found
        THEN [outcome |-> "BadParameter", config |-> f1, cache |-> coins.cache]
      ELSE [outcome |-> "ok", config |-> JsonFile(s2), cache |-> c2]

\* A config that stores the value given rather than the matched coin's id.
config_stores_value(settings, cfg, c, currency_default, coin_default, apiCoins, apiCurs) ==
  LET curs == get_resources(c, "currencies", apiCurs)
      c1 == IF currency_default = None THEN c ELSE curs.cache
      s1 == IF currency_default = None THEN settings
            ELSE SetCurrency(settings, currency_default)
      coins == get_resources(c1, "coins", apiCoins)
      m == config_coin(coins.ret, coin_default)
      c2 == IF coin_default = None THEN c1 ELSE coins.cache
      s2 == IF coin_default = None THEN s1 ELSE SetCoin(s1, coin_default)
  IN  IF currency_default # None /\ curs.status # "ok"
        THEN [outcome |-> curs.status, config |-> cfg, cache |-> curs.cache]
      ELSE IF currency_default # None
              /\ ~(\E i \in 1..Len(curs.ret) : curs.ret[i] = currency_default)
        THEN [outcome |-> "BadParameter", config |-> cfg, cache |-> curs.cache]
      ELSE IF coin_default # None /\ coins.status # "ok"
        THEN [outcome |-> coins.status, config |-> cfg, cache |-> coins.cache]
      ELSE IF coin_default # None /\ ~m.found
        THEN [outcome |-> "BadParameter", config |-> cfg, cache |-> coins.cache]
      ELSE [outcome |-> "ok", config |-> JsonFile(s2), cache |-> c2]

config_cmd(settings, cfg, c, currency_default, coin_default, apiCoins, apiCurs) ==
  LET \* lines 158-164
      curs == get_resources(c, "currencies", apiCurs)
      c1 == IF currency_default = None THEN c ELSE curs.cache
      s1 == IF currency_default = None THEN settings
            ELSE SetCurrency(settings, currency_default)
      \* lines 165-175
      coins == get_resources(c1, "coins", apiCoins)
      m == config_coin(coins.ret, coin_default)
      c2 == IF coin_default = None THEN c1 ELSE coins.cache
      s2 == IF coin_default = None THEN s1 ELSE SetCoin(s1, m.id)
  IN  IF currency_default # None /\ curs.status # "ok"
        THEN [outcome |-> curs.status, config |-> cfg, cache |-> curs.cache]
      ELSE IF currency_default # None
              /\ ~(\E i \in 1..Len(curs.ret) : curs.ret[i] = currency_default)
        THEN [outcome |-> "BadParameter", config |-> cfg, cache |-> curs.cache]
      ELSE IF coin_default # None /\ coins.status # "ok"
        THEN [outcome |-> coins.status, config |-> cfg, cache |-> coins.cache]
      ELSE IF coin_default # None /\ ~m.found
        THEN [outcome |-> "BadParameter", config |-> cfg, cache |-> coins.cache]
      \* lines 177-178: the whole file is replaced
      ELSE [outcome |-> "ok", config |-> JsonFile(s2), cache |-> c2]

----------------------------------------------------------------------------
(* CLI invocations *)

\* Values given on the command line.
CoinOpts == {None, "btc", "Bitcoin", "nosuch"}
CurrencyOpts == {None, "eur", "zzz"}
ConfigCoinOpts == {None, "btc"}
ConfigCurrencyOpts == {None}
CoinDefaults == {None, "btc", "bitcoin", "nosuch"}
CurrencyDefaults == {None, "eur", "zzz"}

\* Settings files a user may have: absent, or any mapping over these values.
ConfigFiles ==
  {AbsentFile} \cup
  {JsonFile(Mapping(a, b)) : a \in {Missing, "bitcoin", "nosuch"},
                             b \in {Missing, "usd", "zzz"}}

Invocation(cmd, coinOpt, curOpt, before, cacheBefore, m, bodyRan, outcome, cd, coind) ==
  [cmd |-> cmd, coinOpt |-> coinOpt, curOpt |-> curOpt, before |-> before,
   cacheBefore |-> cacheBefore,
   settings |-> m.settings, stored |-> m.stored,
   coin |-> m.coin, currency |-> m.currency,
   coinRun |-> m.coinRun, curRun |-> m.curRun,
   bodyRan |-> bodyRan, outcome |-> outcome,
   currency_default |-> cd, coin_default |-> coind]

Init ==
  /\ \E fc \in CacheFiles("coins"), fu \in CacheFiles("currencies") :
       cache = [k \in Kinds |-> IF k = "coins" THEN fc ELSE fu]
  /\ config \in ConfigFiles
  /\ obtained = [k \in Kinds |-> <<>>]   \* followed by SpecCache only
  /\ prev = [k \in Kinds |-> NoCall]
  /\ cur = [k \in Kinds |-> NoCall]
  /\ last = NoInvocation
  /\ v = NoValidation
  /\ g = NoGains
  /\ IdleWatch

\* crypto [--coin x] [--currency y] price
InvokePrice ==
  \E coinOpt \in CoinOpts, curOpt \in CurrencyOpts, curFirst \in BOOLEAN,
     apiCoins \in AnswersFor(cache, "coins"),
     apiCurs \in AnswersFor(cache, "currencies") :
    /\ last.cmd = "none"
    /\ curFirst => (coinOpt # None /\ curOpt # None)
    /\ \E m \in {main(config, cache, coinOpt, curOpt, curFirst, apiCoins, apiCurs)} :
         /\ config' = m.config
         /\ cache' = m.cache
         /\ last' = Invocation("price", coinOpt, curOpt, config, cache, m,
                               m.stored, m.outcome, None, None)
    /\ UNCHANGED <<cacheVars, v, g, watchVars>>

\* crypto [--coin x] [--currency y] config [--currency-default a] [--coin-default b]
InvokeConfig ==
  \E coinOpt \in ConfigCoinOpts, curOpt \in ConfigCurrencyOpts, curFirst \in BOOLEAN,
     cd \in CurrencyDefaults, coind \in CoinDefaults,
     apiCoins \in AnswersFor(cache, "coins"),
     apiCurs \in AnswersFor(cache, "currencies") :
    /\ last.cmd = "none"
    /\ curFirst => (coinOpt # None /\ curOpt # None)
    /\ \E m \in {main(config, cache, coinOpt, curOpt, curFirst, apiCoins, apiCurs)} :
         IF ~m.stored
           THEN /\ config' = m.config
                /\ cache' = m.cache
                /\ last' = Invocation("config", coinOpt, curOpt, config, cache, m,
                                      FALSE, m.outcome, cd, coind)
           ELSE \E r \in {config_cmd(m.settings, m.config, m.cache, cd, coind,
                                      apiCoins, apiCurs)} :
                  /\ config' = r.config
                  /\ cache' = r.cache
                  /\ last' = Invocation("config", coinOpt, curOpt, config, cache, m,
                                        TRUE, r.outcome, cd, coind)
    /\ UNCHANGED <<cacheVars, v, g, watchVars>>

\* The process exits; the next invocation is a new process.
Exit ==
  /\ last.cmd # "none"
  /\ last' = NoInvocation
  /\ UNCHANGED <<config, cache, cacheVars, v, g, watchVars>>

\* The user deletes a cache file between invocations.
RemoveCache ==
  \E kind \in Kinds :
    /\ last.cmd = "none"
    /\ cache[kind].state # "absent"
    /\ cache' = [cache EXCEPT ![kind] = AbsentFile]
    /\ UNCHANGED <<config, cacheVars, last, v, g, watchVars>>

Next == InvokePrice \/ InvokeConfig \/ Exit \/ RemoveCache

Spec == Init /\ [][Next]_vars

----------------------------------------------------------------------------
(* Claims about CLI invocations, read in the state an invocation leaves    *)
(* (last.cmd # "none"), before the process exits.                          *)

Ids(coins) == {coins[i].id : i \in 1..Len(coins)}
AnyMatch(coins, value) == \E i \in 1..Len(coins) : Matches(coins[i], value)
LacksDefault(file) ==
  file.state = "absent" \/ file.doc.coin = Missing \/ file.doc.currency = Missing

(* C3: from a settings file that is absent, empty or without the key coin  *)
(* or currency, an invocation without --coin/--currency leaves the file an *)
(* (empty, if created) mapping, resolves the missing default to the        *)
(* hardcoded fallback and goes on to the option callbacks and the          *)
(* subcommand instead of stopping at the missing key.                      *)
C3_MissingDefaultFallsBack ==
  (last.cmd # "none" /\ last.coinOpt = None /\ last.curOpt = None
     /\ LacksDefault(last.before))
  => /\ config.state = "json"
     /\ last.before.state = "absent" => config.doc = EmptyMapping
     /\ last.outcome # "KeyError"
     /\ last.coinRun.status # "notrun" \/ last.curRun.status # "notrun"

(* C4 as claimed: after a successful config --coin-default v, v the id of  *)
(* a cached coin, the persisted settings have coin = v.                    *)
C4_SetThenViewReturnsValue ==
  (last.cmd = "config" /\ last.bodyRan /\ last.outcome = "ok"
     /\ last.coin_default # None
     /\ last.coin_default \in Ids(cache["coins"].doc))
  => load_settings(config).settings.coin = last.coin_default

(* C4 as amended: after a successful config --coin-default v, v the id of  *)
(* a cached coin, the persisted settings have coin = the id of the first   *)
(* cached coin whose id, name or symbol equals v; that is v itself when no *)
(* coin cached before the coin with id v has the name or symbol v.         *)
C4_SetThenViewReturnsFirstMatch ==
  (last.cmd = "config" /\ last.bodyRan /\ last.outcome = "ok"
     /\ last.coin_default # None
     /\ last.coin_default \in Ids(cache["coins"].doc))
  => LET coins == cache["coins"].doc
         val == last.coin_default
         stored == load_settings(config).settings.coin
     IN  /\ config.state = "json"
         /\ \E i \in 1..Len(coins) :
              /\ Matches(coins[i], val)
              /\ \A j \in 1..(i - 1) : ~Matches(coins[j], val)
              /\ stored = coins[i].id
         /\ (\A i \in 1..Len(coins) :
               Matches(coins[i], val) => coins[i].id = val) => stored = val

C4_Witness ==
  /\ last.cmd = "config" /\ last.bodyRan /\ last.outcome = "ok"
  /\ last.coin_default \in Ids(cache["coins"].doc)
  /\ config.doc.coin # last.coin_default
  /\ last.before.doc.coin # config.doc.coin

(* C5: whenever main stores coin and currency (and so whenever a           *)
(* subcommand body runs) the coin is the id of a record of the coin list   *)
(* its validator read and the currency is an element of the currency list *)
(* its validator read, equal to the value supplied; and an invocation      *)
(* given a currency that is not in the cached currencies, or a coin that   *)
(* matches no cached coin, fails with a bad-parameter error and runs no    *)
(* subcommand body (the API answering whenever it is called).              *)
C5_AcceptedValuesAreCached ==
  last.cmd # "none"
  => LET cb == last.cacheBefore
         curVal == IF last.curOpt = None THEN last.settings.currency
                   ELSE last.curOpt
         answered == ~last.coinRun.fault /\ ~last.curRun.fault
         badCurrency == /\ last.curOpt # None
                        /\ cb["currencies"].state = "json"
                        /\ last.curOpt \notin Range(cb["currencies"].doc)
                        /\ answered
         badCoin == /\ last.coinOpt # None
                    /\ cb["coins"].state = "json"
                    /\ ~AnyMatch(cb["coins"].doc, last.coinOpt)
                    /\ answered
     IN  /\ last.bodyRan => last.stored
         /\ last.stored =>
              /\ last.coin \in Ids(last.coinRun.seen)
              /\ last.currency \in Range(last.curRun.seen)
              /\ last.currency = curVal
         /\ (badCurrency \/ badCoin) =>
              /\ last.outcome = "BadParameter"
              /\ ~last.bodyRan

(* C8: config validates before it writes.  If a supplied default fails     *)
(* validation the invocation ends with a bad-parameter error and the       *)
(* settings file is as it was before the invocation; if every supplied     *)
(* default is valid the file holds the previous mapping updated by exactly *)
(* the supplied keys, coin being the id of the matched coin.               *)
C8_ConfigValidatesBeforeWrite ==
  (last.cmd = "config" /\ last.bodyRan)
  => LET coins == cache["coins"].doc
         currencies == cache["currencies"].doc
         cd == last.currency_default
         coind == last.coin_default
         curValid == cd = None \/ cd \in Range(currencies)
         coinValid == coind = None \/ AnyMatch(coins, coind)
         old == last.before.doc
     IN  /\ cache["coins"].state = "json"
         /\ cache["currencies"].state = "json"
         /\ last.before.state = "json"
         /\ ~(curValid /\ coinValid) =>
              /\ last.outcome = "BadParameter"
              /\ config = last.before
         /\ (curValid /\ coinValid) =>
              /\ last.outcome = "ok"
              /\ config.state = "json"
              /\ config.doc.currency = IF cd = None THEN old.currency ELSE cd
              /\ coind = None => config.doc.coin = old.coin
              /\ coind # None =>
                   \E i \in 1..Len(coins) :
                     /\ Matches(coins[i], coind)
                     /\ \A j \in 1..(i - 1) : ~Matches(coins[j], coind)
                     /\ config.doc.coin = coins[i].id

\* --currency-default is valid and is new, --coin-default matches nothing.
C8_Witness ==
  /\ last.cmd = "config" /\ last.bodyRan
  /\ last.outcome = "BadParameter"
  /\ last.currency_default \in Range(cache["currencies"].doc)
  /\ last.currency_default # last.before.doc.currency
  /\ last.coin_default # None
  /\ ~AnyMatch(cache["coins"].doc, last.coin_default)
  /\ config = last.before

----------------------------------------------------------------------------
(* The validators called on their own, over any cache contents.            *)

CoinValues ==
  UNION {{c.id, c.name, c.symbol} : c \in Coins} \cup {"nosuch"}
CurrencyValues == Currencies \cup {"zzz"}

Validation(of, value, r) ==
  [of |-> of, value |-> value, status |-> r.status, ret |-> r.ret]

InitValidate ==
  /\ \E fc \in CacheFiles("coins") \ {AbsentFile},
        fu \in CacheFiles("currencies") \ {AbsentFile} :
       cache = [k \in Kinds |-> IF k = "coins" THEN fc ELSE fu]
  /\ config = AbsentFile
  /\ obtained = [k \in Kinds |-> <<>>]
  /\ prev = [k \in Kinds |-> NoCall]
  /\ cur = [k \in Kinds |-> NoCall]
  /\ last = NoInvocation
  /\ v = NoValidation
  /\ g = NoGains
  /\ IdleWatch

ValidateCoin ==
  \E value \in CoinValues :
    \E r \in {validate_coin(cache, value, Raises)} :
      /\ v' = Validation("coin", value, r)
      /\ cache' = r.cache
      /\ UNCHANGED <<config, cacheVars, last, g, watchVars>>

ValidateCurrency ==
  \E value \in CurrencyValues :
    \E r \in {validate_currency(cache, value, Raises)} :
      /\ v' = Validation("currency", value, r)
      /\ cache' = r.cache
      /\ UNCHANGED <<config, cacheVars, last, g, watchVars>>

NextValidate == ValidateCoin \/ ValidateCurrency

SpecValidate == InitValidate /\ [][NextValidate]_vars

(* C2 as claimed: for every coin c of the coin cache, validate_coin of     *)
(* c.id, of c.name and of c.symbol returns c.id.                           *)
C2_AnyFieldGivesOwnId ==
  v.of = "coin"
  => \A i \in 1..Len(cache["coins"].doc) :
       Matches(cache["coins"].doc[i], v.value)
       => v.status = "ok" /\ v.ret = cache["coins"].doc[i].id

(* C2 as amended: for every coin c of the coin cache, validate_coin of     *)
(* c.id, of c.name and of c.symbol succeeds and returns the id of the      *)
(* first cached coin one of whose id, name and symbol equals the value;    *)
(* that is c.id when no coin cached before c has a field equal to it.      *)
C2_AnyFieldGivesFirstMatchId ==
  v.of = "coin"
  => LET coins == cache["coins"].doc
     IN  \A i \in 1..Len(coins) :
           Matches(coins[i], v.value)
           => /\ v.status = "ok"
              /\ \E k \in 1..i :
                   /\ Matches(coins[k], v.value)
                   /\ \A j \in 1..(k - 1) : ~Matches(coins[j], v.value)
                   /\ v.ret = coins[k].id
              /\ (\A j \in 1..(i - 1) : ~Matches(coins[j], v.value))
                   => v.ret = coins[i].id

\* The value is the symbol of the first coin and the id of the second.
C2_Witness ==
  /\ v.of = "coin" /\ v.status = "ok"
  /\ Len(cache["coins"].doc) >= 2
  /\ v.value = cache["coins"].doc[1].symbol
  /\ v.value = cache["coins"].doc[2].id
  /\ v.ret = cache["coins"].doc[1].id

----------------------------------------------------------------------------
(* The gains subcommand (lines 227-244).  A datetime is a number of ticks; *)
(* strftime('%d-%m-%Y') keeps its day.  The context's coin and currency    *)
(* play no part in the checks and are left out.                            *)

Datetimes == 0..((MaxDay + 1) * TicksPerDay - 1)
Prices == 0..MaxPrice

strftime(d) == d \div TicksPerDay

\* percent_change as the exact quotient num/den, den # 0.
Quotient(n, d) == [num |-> n, den |-> d]
Positive(q) == q.num * q.den > 0

GainsResult(outcome, start_date, end_date, today, calls, sp, ep, pc_, word) ==
  [outcome |-> outcome, start_date |-> start_date, end_date |-> end_date,
   today |-> today, calls |-> calls, start_price |-> sp, end_price |-> ep,
   percent_change |-> pc_, word |-> word]

\* A gains that raises when the end date follows the start date.
gains_order_inverted(start_date, end_date, today1, today2, start_price, end_price) ==
  LET percent_change == Quotient((end_price - start_price) * 100, start_price)
      word == IF Positive(percent_change) THEN "increased" ELSE "decreased"
  IN  IF end_date > start_date
        THEN GainsResult("BadParameter", start_date, end_date, today1, 0,
                         0, 0, Quotient(0, 1), None)
      ELSE IF end_date > today1 \/ start_date > today2
        THEN GainsResult("BadParameter", start_date, end_date,
                         IF end_date > today1 THEN today1 ELSE today2, 0,
                         0, 0, Quotient(0, 1), None)
      ELSE IF start_price = 0
        THEN GainsResult("ZeroDivisionError", start_date, end_date, today2, 2,
                         start_price, end_price, Quotient(0, 1), None)
      ELSE GainsResult("ok", start_date, end_date, today2, 2,
                       start_price, end_price, percent_change, word)

\* A gains whose word is "increased" when percent_change >= 0.
gains_tie_increased(start_date, end_date, today1, today2, start_price, end_price) ==
  LET percent_change == Quotient((end_price - start_price) * 100, start_price)
      word == IF Positive(percent_change) \/ percent_change.num = 0
                THEN "increased" ELSE "decreased"
  IN  IF end_date < start_date
        THEN GainsResult("BadParameter", start_date, end_date, today1, 0,
                         0, 0, Quotient(0, 1), None)
      ELSE IF end_date > today1 \/ start_date > today2
        THEN GainsResult("BadParameter", start_date, end_date,
                         IF end_date > today1 THEN today1 ELSE today2, 0,
                         0, 0, Quotient(0, 1), None)
      ELSE IF start_price = 0
        THEN GainsResult("ZeroDivisionError", start_date, end_date, today2, 2,
                         start_price, end_price, Quotient(0, 1), None)
      ELSE GainsResult("ok", start_date, end_date, today2, 2,
                       start_price, end_price, percent_change, word)

\* today1 and today2 are the two readings of datetime.today() on line 234
\* (the second is taken only if the first comparison is false); today is
\* the last reading taken.  start_price and end_price are the answers of
\* the history endpoint for the two dates; calls counts its calls.
gains(start_date, end_date, today1, today2, start_price, end_price) ==
  LET percent_change == Quotient((end_price - start_price) * 100, start_price)
      word == IF Positive(percent_change) THEN "increased" ELSE "decreased"
  IN  IF end_date < start_date
        THEN GainsResult("BadParameter", start_date, end_date, today1, 0,
                         0, 0, Quotient(0, 1), None)
      ELSE IF end_date > today1 \/ start_date > today2
        THEN GainsResult("BadParameter", start_date, end_date,
                         IF end_date > today1 THEN today1 ELSE today2, 0,
                         0, 0, Quotient(0, 1), None)
      ELSE IF start_price = 0
        THEN GainsResult("ZeroDivisionError", start_date, end_date, today2, 2,
                         start_price, end_price, Quotient(0, 1), None)
      ELSE GainsResult("ok", start_date, end_date, today2, 2,
                       start_price, end_price, percent_change, word)

InitGains ==
  /\ cache = [k \in Kinds |-> AbsentFile]
  /\ config = AbsentFile
  /\ obtained = [k \in Kinds |-> <<>>]
  /\ prev = [k \in Kinds |-> NoCall]
  /\ cur = [k \in Kinds |-> NoCall]
  /\ last = NoInvocation
  /\ v = NoValidation
  /\ g = NoGains
  /\ IdleWatch

\* gains -sd start [-ed end]: without -ed the end date is the default of
\* line 226, datetime.today() read when the module was loaded.
Gains ==
  /\ g.outcome = "none"
  /\ \E today1 \in Datetimes, start_date \in Datetimes,
        endOpt \in Datetimes \cup {-1}, start_price \in Prices, end_price \in Prices :
     \E today2 \in {t \in Datetimes : today1 <= t},
        loaded \in IF endOpt = -1 THEN {t \in Datetimes : t <= today1} ELSE {today1} :
       LET end_date == IF endOpt = -1 THEN loaded ELSE endOpt
       IN  \* the history endpoint is asked by date: one date, one price
           /\ strftime(start_date) = strftime(end_date) => start_price = end_price
           /\ g' = gains(start_date, end_date, today1, today2, start_price, end_price)
  /\ UNCHANGED <<config, cache, cacheVars, last, v, watchVars>>

\* The process exits.
GainsExit ==
  /\ g.outcome # "none"
  /\ g' = NoGains
  /\ UNCHANGED <<config, cache, cacheVars, last, v, watchVars>>

NextGains == Gains \/ GainsExit

SpecGains == InitGains /\ [][NextGains]_vars

(* C6: gains fails with a bad-parameter error whenever the end date is     *)
(* before the start date and whenever the start or the end date is after   *)
(* the current date (the clock as last read by gains), and in each of    *)
(* these cases no call of the price API was made.                          *)
C6_BadDatesRejectedBeforeApi ==
  (g.outcome # "none"
     /\ (g.end_date < g.start_date \/ g.start_date > g.today
           \/ g.end_date > g.today))
  => g.outcome = "BadParameter" /\ g.calls = 0

C6_Witness ==
  /\ g.outcome = "BadParameter" /\ g.calls = 0
  /\ g.end_date < g.start_date
  /\ g.start_date <= g.today

(* C7: for gains with valid dates and a positive start price the word is   *)
(* "increased" exactly when end_price > start_price and "decreased"        *)
(* otherwise; when start = end, and whenever the two prices are equal,     *)
(* percent_change is 0 and the word is "decreased".                        *)
C7_WordFollowsPrices ==
  (g.outcome # "none" /\ g.calls > 0 /\ g.start_price > 0)
  => /\ g.outcome = "ok"
     /\ g.word = "increased" <=> g.end_price > g.start_price
     /\ g.word = "decreased" <=> g.end_price <= g.start_price
     /\ (g.start_date = g.end_date \/ g.start_price = g.end_price)
          => g.percent_change.num = 0 /\ g.word = "decreased"

C7_Witness ==
  /\ g.outcome = "ok" /\ g.start_price > 0
  /\ g.start_date = g.end_date
  /\ g.percent_change.num = 0 /\ g.word = "decreased"

----------------------------------------------------------------------------
(* The price subcommand (get_price, lines 78-102), one step per pass of    *)
(* its loop.  stop is <<>> for None and <<n>> for the integer n.           *)

SecondsPerMinute == 60

Intervals == -1..MaxInterval
Stops == {<<>>} \cup {<<n>> : n \in -1..MaxStop}

\* The watch loop is followed for at most MaxLoops passes.
MaxLoops == SecondsPerMinute * MaxStop + 3

\* A stop test that needs the elapsed time to exceed the stop time.
StopPassed(i, n, s) == s # <<>> /\ i * n > s[1] * SecondsPerMinute

\* Line 93: stop is not None and interval * num_loops >= stop * 60
StopReached(i, n, s) == s # <<>> /\ i * n >= s[1] * SecondsPerMinute

InitWatch ==
  /\ cache = [k \in Kinds |-> AbsentFile]
  /\ config = AbsentFile
  /\ obtained = [k \in Kinds |-> <<>>]
  /\ prev = [k \in Kinds |-> NoCall]
  /\ cur = [k \in Kinds |-> NoCall]
  /\ last = NoInvocation
  /\ v = NoValidation
  /\ g = NoGains
  /\ IdleWatch

\* Lines 81-88 and 96-102: the handler up to the loop, or all of it
\* without --watch.  60 / interval raises ZeroDivisionError for interval 0.
StartPrice ==
  \E w \in BOOLEAN, i \in Intervals, s \in Stops :
    /\ pc = "idle"
    /\ watch' = w /\ interval' = i /\ stop' = s
    /\ num_loops' = 0 /\ sleeps' = 0
    /\ IF i = 0
         THEN pc' = "ZeroDivisionError" /\ fetches' = 0 /\ printed' = 0
       ELSE IF w
         THEN pc' = "loop" /\ fetches' = 0 /\ printed' = 0
       ELSE pc' = "done" /\ fetches' = 1 /\ printed' = 1
    /\ UNCHANGED <<config, cache, cacheVars, last, v, g>>

\* Lines 90-94: one pass up to the stop test.
LoopPass ==
  /\ pc = "loop"
  /\ num_loops < MaxLoops
  /\ num_loops' = num_loops + 1
  /\ fetches' = fetches + 1
  /\ printed' = printed + 1
  /\ pc' = IF StopReached(interval, num_loops + 1, stop) THEN "done" ELSE "sleep"
  /\ UNCHANGED <<watch, interval, stop, sleeps>>
  /\ UNCHANGED <<config, cache, cacheVars, last, v, g>>

\* Line 95: time.sleep(interval) raises ValueError for a negative length.
Sleep ==
  /\ pc = "sleep"
  /\ IF interval < 0
       THEN pc' = "ValueError" /\ sleeps' = sleeps
       ELSE pc' = "loop" /\ sleeps' = sleeps + 1
  /\ UNCHANGED <<watch, interval, stop, num_loops, fetches, printed>>
  /\ UNCHANGED <<config, cache, cacheVars, last, v, g>>

NextWatch == StartPrice \/ LoopPass \/ Sleep

\* The handler is sequential code: a pass or a sleep that can run does run.
FairSpecWatch ==
  InitWatch /\ [][NextWatch]_vars /\ WF_vars(LoopPass) /\ WF_vars(Sleep)

Ceil(a, b) == (a + b - 1) \div b
Max(a, b) == IF a >= b THEN a ELSE b

StopGiven == watch /\ stop # <<>> /\ stop[1] >= 0 /\ interval >= 1

C9_StopsAtCount ==
  /\ pc \in {"loop", "sleep", "done"} /\ watch => printed = fetches /\ fetches = num_loops
  /\ (StopGiven /\ pc = "done") =>
       /\ fetches = Max(1, Ceil(SecondsPerMinute * stop[1], interval))
       /\ sleeps = fetches - 1
  /\ (StopGiven /\ pc = "sleep") =>
       interval * num_loops < stop[1] * SecondsPerMinute
  /\ (watch /\ stop = <<>>) => pc # "done"

(* C9: price in watch mode with --stop s >= 0 and interval i >= 1          *)
(* terminates: it fetches and prints once per pass and stops after the     *)
(* first pass n with i * n >= 60 * s, after max(1, ceil(60*s/i)) fetches   *)
(* and one sleep fewer; without --stop the loop never ends by itself.      *)
C9_WatchTerminates ==
  /\ []C9_StopsAtCount
  /\ [](StopGiven /\ pc = "loop" => <>(pc = "done"))

C9_Witness ==
  /\ pc = "done" /\ watch /\ interval = 15 /\ stop = <<1>>
  /\ fetches = 4 /\ sleeps = 3

====
